---- MODULE Spec2Model ----
(***************************************************************************)
(* Model of src/util/axiosConfig.jsx: the shared axios client, its request *)
(* interceptor (bearer-token injection with an excluded-endpoint list) and *)
(* its response interceptor (401 redirect, 500 / timeout logging).         *)
(*                                                                         *)
(* JavaScript strings that the code inspects or builds (the request URL,   *)
(* the stored token, the Authorization value) are sequences of one-letter  *)
(* strings, so that String.prototype.includes and the template literal are *)
(* computed and not assumed.  An optional value (undefined / null) is the  *)
(* empty sequence <<>>, a present value v is <<v>>.                        *)
(***************************************************************************)
EXTENDS Integers, Sequences, FiniteSets, TLC

VARIABLES localStorage, defaults, req, navigations, console, issued

vars == <<localStorage, defaults, req, navigations, console, issued>>

(* ------------------------------ bounds -------------------------------- *)
\* number of requests that can be in flight at once
MaxInFlight == 2
\* number of calls the application issues in one behaviour
MaxCalls == 3

Slots == 1..MaxInFlight

(* ------------------------- optional values ----------------------------- *)
Undefined == <<>>
Some(v) == <<v>>

(* ------------------------------ strings -------------------------------- *)
\* s.includes(sub) of JavaScript: sub occurs in s as a contiguous substring
Includes(s, sub) ==
    \E i \in 0..(Len(s) - Len(sub)) : SubSeq(s, i + 1, i + Len(sub)) = sub

s_login == <<"/", "l", "o", "g", "i", "n">>
s_register == <<"/", "r", "e", "g", "i", "s", "t", "e", "r">>
s_status == <<"/", "s", "t", "a", "t", "u", "s">>
s_activate == <<"/", "a", "c", "t", "i", "v", "a", "t", "e">>
s_health == <<"/", "h", "e", "a", "l", "t", "h">>
s_api == <<"/", "a", "p", "i">>
s_profile == <<"/", "p", "r", "o", "f", "i", "l", "e">>

\* the template literal `Bearer ${accessToken}` without the token
Bearer == <<"B", "e", "a", "r", "e", "r", " ">>

\* the message literals of the two console.error calls
ServerErrorMsg == "Server error. Please try again later"
TimeoutMsg == "Request timeout. Please try again."
LoginPath == "/login"

(* --------------------------- the client -------------------------------- *)
\* headers given to axios.create
DefaultHeaders ==
    [n \in {"Content-Type", "Accept"} |-> <<"application/json">>]

excludeEndpointsShort == <<s_login, s_register, s_status, s_activate>>

excludeEndpoints == <<s_login, s_register, s_status, s_activate, s_health>>

\* excludeEndpoints.some(endpoint => config.url?.includes(endpoint))
shouldSkipToken(config) ==
    \E i \in 1..Len(excludeEndpoints) :
        config.url # Undefined /\ Includes(config.url[1], excludeEndpoints[i])

TruthyNotNull(v) == v # Undefined

\* truthiness of the value localStorage.getItem returns: null and "" are falsy
Truthy(v) == v # Undefined /\ Len(v[1]) > 0

\* config.headers.Authorization = value
SetHeader(headers, name, value) ==
    [n \in DOMAIN headers \cup {name} |->
        IF n = name THEN value ELSE headers[n]]

\* the request interceptor's fulfilled handler; storage is the value held
\* under key "token" when the handler runs
RequestInterceptor(config, storage) ==
    IF ~shouldSkipToken(config)
    THEN LET accessToken == storage
         IN  IF Truthy(accessToken)
             THEN [config EXCEPT !.headers =
                      SetHeader(@, "Authorization", Bearer \o accessToken[1])]
             ELSE config
    ELSE config

ResponseErrorEffectsSwallow(error) ==
    [navigate |-> IF error.response # Undefined /\ error.response[1].status = 401
                  THEN <<LoginPath>> ELSE <<>>,
     log |-> <<>>,
     settle |-> [pc |-> "resolved", value |-> Undefined]]

ResponseErrorEffectsAuthOnly(error) ==
    [navigate |-> IF /\ error.response # Undefined
                     /\ error.response[1].status = 401
                     /\ "Authorization" \in DOMAIN error.config.headers
                  THEN <<LoginPath>> ELSE <<>>,
     log |-> IF error.response # Undefined
             THEN IF error.response[1].status = 500
                  THEN <<ServerErrorMsg>> ELSE <<>>
             ELSE IF error.code = Some("ECONNABORTED")
                  THEN <<TimeoutMsg>> ELSE <<>>,
     settle |-> [pc |-> "rejected", value |-> Some(error)]]

ResponseErrorEffectsSwapped(error) ==
    [navigate |-> IF error.response # Undefined /\ error.response[1].status = 401
                  THEN <<LoginPath>> ELSE <<>>,
     log |-> IF error.response # Undefined
             THEN IF error.response[1].status = 500
                  THEN <<TimeoutMsg>> ELSE <<>>
             ELSE IF error.code = Some("ECONNABORTED")
                  THEN <<TimeoutMsg>> ELSE <<>>,
     settle |-> [pc |-> "rejected", value |-> Some(error)]]

ResponseErrorEffectsTimedOut(error) ==
    [navigate |-> IF error.response # Undefined /\ error.response[1].status = 401
                  THEN <<LoginPath>> ELSE <<>>,
     log |-> IF error.response # Undefined
             THEN IF error.response[1].status = 500
                  THEN <<ServerErrorMsg>> ELSE <<>>
             ELSE IF error.code = Some("ETIMEDOUT")
                  THEN <<TimeoutMsg>> ELSE <<>>,
     settle |-> [pc |-> "rejected", value |-> Some(error)]]

ResponseErrorEffectsLogOn401(error) ==
    [navigate |-> IF error.response # Undefined /\ error.response[1].status = 401
                  THEN <<LoginPath>> ELSE <<>>,
     log |-> IF error.response # Undefined
             THEN IF error.response[1].status \in {401, 500}
                  THEN <<ServerErrorMsg>> ELSE <<>>
             ELSE IF error.code = Some("ECONNABORTED")
                  THEN <<TimeoutMsg>> ELSE <<>>,
     settle |-> [pc |-> "rejected", value |-> Some(error)]]

\* the response interceptor's rejected handler: the assignments it makes to
\* window.location.href, the console.error calls it makes, and how the
\* promise it returns settles
ResponseErrorEffects(error) ==
    [navigate |-> IF error.response # Undefined /\ error.response[1].status = 401
                  THEN <<LoginPath>> ELSE <<>>,
     log |-> IF error.response # Undefined
             THEN IF error.response[1].status = 500
                  THEN <<ServerErrorMsg>> ELSE <<>>
             ELSE IF error.code = Some("ECONNABORTED")
                  THEN <<TimeoutMsg>> ELSE <<>>,
     settle |-> [pc |-> "rejected", value |-> Some(error)]]

ResponseSuccessEffectsStrip(response) ==
    [navigate |-> <<>>, log |-> <<>>,
     settle |-> [pc |-> "resolved", value |-> Some([response EXCEPT !.data = Undefined])]]

\* the response interceptor's fulfilled handler
ResponseSuccessEffects(response) ==
    [navigate |-> <<>>, log |-> <<>>,
     settle |-> [pc |-> "resolved", value |-> Some(response)]]

(* ------------------------------ inputs --------------------------------- *)
NoHeaders == [n \in {} |-> <<>>]
BasicAuth == [n \in {"Authorization"} |-> <<"B", "a", "s", "i", "c", " ", "u">>]

\* headers a caller can pass with one call
CallerHeaders == {NoHeaders, BasicAuth}

tok_abc == <<"a", "b", "c">>
tok_xyz == <<"x", "y", "z">>

\* values storage can hold under key "token": none, "", "abc", "xyz"
Tokens == {Undefined, Some(<<>>), Some(tok_abc), Some(tok_xyz)}

\* values of config.url: undefined, "", and paths with and without an
\* excluded substring at the start, in the middle and at the end
URLs ==
    { Undefined,
      Some(<<>>),
      Some(s_login),
      Some(s_api \o s_login),
      Some(s_api \o s_profile),
      Some(s_register),
      Some(s_api \o s_status \o <<"/", "1">>),
      Some(s_activate \o <<"?", "t", "=", "1">>),
      Some(s_health \o <<"z">>),
      Some(s_profile \o <<"?", "r", "=">> \o s_login),
      Some(<<"/", "L", "o", "g", "i", "n">>),
      Some(<<"l", "o", "g", "i", "n">>),
      Some(<<"/", "l", "o", "g", "/", "i", "n">>),
      Some(<<"/", "h", "e", "a", "l">>) }

\* HTTP statuses of a failed call that carries a server response
ErrorStatuses == {401, 403, 404, 500, 503}

\* error.response: absent, or a response with one of the statuses
ErrorResponses == {Undefined} \cup {Some([status |-> st]) : st \in ErrorStatuses}

\* error.code: absent, or one of axios' codes
ErrorCodes ==
    {Undefined, Some("ECONNABORTED"), Some("ETIMEDOUT"), Some("ERR_NETWORK"),
     Some("ERR_BAD_RESPONSE")}

\* bodies of a successful response
Bodies == {Undefined, Some("ok")}

\* the inputs of the specification of concurrent calls
ConcURLs == {Some(s_api \o s_login), Some(s_api \o s_profile)}
ConcTokens == {Undefined, Some(tok_abc), Some(tok_xyz)}
ConcErrorResponses == {Some([status |-> 401]), Some([status |-> 500])}

(* ------------------------------- state --------------------------------- *)
Idle == [pc |-> "idle", config |-> Undefined, value |-> Undefined]

\* the descriptor axios builds for one call: the client's default headers
\* overlaid with the headers of the call, in an object of its own
MergeConfig(url, headers) ==
    [url |-> url,
     headers |-> [n \in DOMAIN defaults \cup DOMAIN headers |->
                     IF n \in DOMAIN headers THEN headers[n] ELSE defaults[n]]]

Init ==
    /\ localStorage \in ConcTokens
    /\ defaults = DefaultHeaders
    /\ req = [r \in Slots |-> Idle]
    /\ navigations = <<>>
    /\ console = <<>>
    /\ issued = 0

(* ------------------------------ actions -------------------------------- *)
\* the application issues a call through the shared client
NewRequest(r, url, headers) ==
    /\ req[r].pc = "idle"
    /\ issued < MaxCalls
    /\ req' = [req EXCEPT ![r] =
                 [pc |-> "created", config |-> Some(MergeConfig(url, headers)),
                  value |-> Undefined]]
    /\ issued' = issued + 1
    /\ UNCHANGED <<localStorage, defaults, navigations, console>>

RequestHookCached(r) ==
    /\ req[r].pc = "created"
    /\ LET seen == {s \in Slots : req[s].config # Undefined
                        /\ "Authorization" \in DOMAIN req[s].config[1].headers
                        /\ Includes(req[s].config[1].headers["Authorization"], Bearer)}
           cached == IF seen = {} THEN localStorage
                     ELSE LET h == req[CHOOSE s \in seen : TRUE].config[1].headers["Authorization"]
                          IN  Some(SubSeq(h, Len(Bearer) + 1, Len(h)))
       IN  req' = [req EXCEPT ![r] =
                     [pc |-> "sent",
                      config |-> Some(RequestInterceptor(req[r].config[1], cached)),
                      value |-> Undefined]]
    /\ UNCHANGED <<localStorage, defaults, navigations, console, issued>>

RequestHookShared(r) ==
    /\ req[r].pc = "created"
    /\ LET out == RequestInterceptor(req[r].config[1], localStorage)
       IN  /\ req' = [req EXCEPT ![r] =
                        [pc |-> "sent", config |-> Some(out), value |-> Undefined]]
           /\ defaults' = IF "Authorization" \in DOMAIN out.headers
                          THEN SetHeader(defaults, "Authorization",
                                         out.headers["Authorization"])
                          ELSE defaults
    /\ UNCHANGED <<localStorage, navigations, console, issued>>

\* the request interceptor runs on the descriptor of call r
RequestHook(r) ==
    /\ req[r].pc = "created"
    /\ req' = [req EXCEPT ![r] =
                 [pc |-> "sent",
                  config |-> Some(RequestInterceptor(req[r].config[1], localStorage)),
                  value |-> Undefined]]
    /\ UNCHANGED <<localStorage, defaults, navigations, console, issued>>

\* what a run of a response handler for call r leaves behind
Settle(r, eff) ==
    /\ navigations' = navigations \o eff.navigate
    /\ console' = console \o eff.log
    /\ req' = [req EXCEPT ![r] =
                 [pc |-> eff.settle.pc, config |-> req[r].config,
                  value |-> eff.settle.value]]
    /\ UNCHANGED <<localStorage, defaults, issued>>

\* the transport completes call r with a 2xx response
Succeed(r, data) ==
    /\ req[r].pc = "sent"
    /\ req' = [req EXCEPT ![r] =
                 [pc |-> "received", config |-> req[r].config,
                  value |-> Some([status |-> 200, data |-> data,
                                  config |-> req[r].config[1]])]]
    /\ UNCHANGED <<localStorage, defaults, navigations, console, issued>>

\* the transport fails call r with an error: with or without a server
\* response, with or without a code
Fail(r, response, code) ==
    /\ req[r].pc = "sent"
    /\ req' = [req EXCEPT ![r] =
                 [pc |-> "failed", config |-> req[r].config,
                  value |-> Some([config |-> req[r].config[1],
                                  response |-> response, code |-> code])]]
    /\ UNCHANGED <<localStorage, defaults, navigations, console, issued>>

\* the response interceptor's first handler runs on the response of call r
ResponseFulfilled(r) ==
    /\ req[r].pc = "received"
    /\ Settle(r, ResponseSuccessEffects(req[r].value[1]))

\* the response interceptor's second handler runs on the error of call r
ResponseRejected(r) ==
    /\ req[r].pc = "failed"
    /\ Settle(r, ResponseErrorEffects(req[r].value[1]))

\* the caller has observed the outcome of call r; its descriptor is dropped
Consume(r) ==
    /\ req[r].pc \in {"resolved", "rejected"}
    /\ req' = [req EXCEPT ![r] = Idle]
    /\ UNCHANGED <<localStorage, defaults, navigations, console, issued>>

\* the application stores a token under key "token" (login)
SetToken(t) ==
    /\ localStorage' = Some(t)
    /\ UNCHANGED <<defaults, req, navigations, console, issued>>

\* the application removes the token (logout)
RemoveToken ==
    /\ localStorage # Undefined
    /\ localStorage' = Undefined
    /\ UNCHANGED <<defaults, req, navigations, console, issued>>

Next ==
    \/ \E r \in Slots, u \in ConcURLs : NewRequest(r, u, NoHeaders)
    \/ \E r \in Slots : RequestHook(r)
    \/ \E r \in Slots : Succeed(r, Some("ok"))
    \/ \E r \in Slots, e \in ConcErrorResponses : Fail(r, e, Undefined)
    \/ \E r \in Slots : ResponseFulfilled(r)
    \/ \E r \in Slots : ResponseRejected(r)
    \/ \E r \in Slots : Consume(r)
    \/ \E t \in {tok_abc, tok_xyz} : SetToken(t)
    \/ RemoveToken

Spec == Init /\ [][Next]_vars

(* One call, its inputs drawn from the full input sets: the two interceptors *)
(* as functions of the descriptor, the stored token and the outcome.         *)
InitHooks ==
    /\ localStorage \in Tokens
    /\ defaults = DefaultHeaders
    /\ \E u \in URLs, h \in CallerHeaders :
          req = [r \in Slots |->
                    IF r = 1
                    THEN [pc |-> "created", config |-> Some(MergeConfig(u, h)),
                          value |-> Undefined]
                    ELSE Idle]
    /\ navigations = <<>>
    /\ console = <<>>
    /\ issued = 1

NextHooks ==
    \/ RequestHook(1)
    \/ \E d \in Bodies : Succeed(1, d)
    \/ \E e \in ErrorResponses, c \in ErrorCodes : Fail(1, e, c)
    \/ ResponseFulfilled(1)
    \/ ResponseRejected(1)

SpecHooks == InitHooks /\ [][NextHooks]_vars

(* ------------------------------ claims --------------------------------- *)
\* the five excluded substrings, as the specification lists them
ExcludedSubstrings == {s_login, s_register, s_status, s_activate, s_health}

\* the URL carries at least one excluded substring
UrlExcluded(config) ==
    /\ config.url # Undefined
    /\ \E e \in ExcludedSubstrings : Includes(config.url[1], e)

\* the Authorization header of a descriptor, if it has one
Auth(config) ==
    IF "Authorization" \in DOMAIN config.headers
    THEN Some(config.headers["Authorization"])
    ELSE Undefined

\* storage holds a non-empty token
TokenPresent == localStorage # Undefined /\ localStorage[1] # <<>>

\* this step is the request hook running for call r
HookStep(r) == req[r].pc = "created" /\ req'[r].pc = "sent"

\* this step is the response hook's error handler running for call r
ErrorStep(r) == req[r].pc = "failed" /\ req'[r].pc # "failed"

\* this step is the response hook's success handler running for call r
SuccessStep(r) == req[r].pc = "received" /\ req'[r].pc # "received"

HasStatus(error, st) ==
    error.response # Undefined /\ error.response[1].status = st

IsTimeout(error) ==
    error.response = Undefined /\ error.code = Some("ECONNABORTED")

\* the promise of call r is rejected with the error the hook received
RejectsSame(r) == req'[r].pc = "rejected" /\ req'[r].value = req[r].value

\* C1: for a URL that contains one of the five excluded substrings the
\* request hook leaves the Authorization header as it found it, whatever
\* storage holds under "token"
C1_ExcludedNeverSet ==
    [][\A r \in Slots :
          (HookStep(r) /\ UrlExcluded(req[r].config[1]))
              => Auth(req'[r].config[1]) = Auth(req[r].config[1])]_vars

C1_Witness ==
    \E r \in Slots :
        /\ req[r].pc = "sent"
        /\ UrlExcluded(req[r].config[1])
        /\ TokenPresent
        /\ Auth(req[r].config[1]) = Undefined

\* C2: for a URL with none of the excluded substrings (or no URL) the hook
\* returns Authorization = "Bearer " + t when storage holds a non-empty
\* token t, and returns the headers as on entry when the token is absent or
\* empty
C2_BearerInjected ==
    [][\A r \in Slots :
          (HookStep(r) /\ ~UrlExcluded(req[r].config[1]))
              => /\ req'[r].config[1].url = req[r].config[1].url
                 /\ TokenPresent =>
                       Auth(req'[r].config[1]) = Some(Bearer \o localStorage[1])
                 /\ ~TokenPresent =>
                       req'[r].config[1].headers = req[r].config[1].headers]_vars

C2_Witness ==
    \E r \in Slots :
        /\ req[r].pc = "sent"
        /\ req[r].config[1].url = Undefined
        /\ localStorage = Some(tok_abc)
        /\ Auth(req[r].config[1]) =
              Some(<<"B", "e", "a", "r", "e", "r", " ", "a", "b", "c">>)

\* C3: on an error with a response of status 401 the response hook makes
\* exactly one navigation to "/login", logs nothing and rejects with the
\* same error
C3_Unauthorized ==
    [][\A r \in Slots :
          (ErrorStep(r) /\ HasStatus(req[r].value[1], 401))
              => /\ navigations' = Append(navigations, "/login")
                 /\ console' = console
                 /\ RejectsSame(r)]_vars

C3_Witness ==
    \E r \in Slots :
        /\ req[r].pc = "rejected"
        /\ HasStatus(req[r].value[1], 401)
        /\ navigations = <<"/login">>
        /\ console = <<>>

\* C4: on an error with a response of status 500 the response hook logs
\* "Server error. Please try again later" once, does not navigate and
\* rejects with the same error
C4_ServerError ==
    [][\A r \in Slots :
          (ErrorStep(r) /\ HasStatus(req[r].value[1], 500))
              => /\ console' = Append(console, "Server error. Please try again later")
                 /\ navigations' = navigations
                 /\ RejectsSame(r)]_vars

C4_Witness ==
    \E r \in Slots :
        /\ req[r].pc = "rejected"
        /\ HasStatus(req[r].value[1], 500)
        /\ console = <<"Server error. Please try again later">>
        /\ navigations = <<>>

\* C5: on an error without a response whose code is the abort/timeout code
\* the response hook logs "Request timeout. Please try again." once, does
\* not navigate and rejects with the same error
C5_Timeout ==
    [][\A r \in Slots :
          (ErrorStep(r) /\ IsTimeout(req[r].value[1]))
              => /\ console' = Append(console, "Request timeout. Please try again.")
                 /\ navigations' = navigations
                 /\ RejectsSame(r)]_vars

C5_Witness ==
    \E r \in Slots :
        /\ req[r].pc = "rejected"
        /\ IsTimeout(req[r].value[1])
        /\ console = <<"Request timeout. Please try again.">>
        /\ navigations = <<>>

\* C6: the response hook rejects with the error it received, whatever its
\* shape; for a shape other than status 401, status 500 and
\* no-response-with-timeout-code it neither navigates nor logs
C6_AlwaysRejects ==
    [][\A r \in Slots :
          ErrorStep(r)
              => /\ RejectsSame(r)
                 /\ ( /\ ~HasStatus(req[r].value[1], 401)
                      /\ ~HasStatus(req[r].value[1], 500)
                      /\ ~IsTimeout(req[r].value[1]) )
                       => (navigations' = navigations /\ console' = console)]_vars

C6_Witness ==
    \E r \in Slots :
        /\ req[r].pc = "rejected"
        /\ HasStatus(req[r].value[1], 403)
        /\ req[r].value[1].code = Some("ECONNABORTED")
        /\ console = <<>>
        /\ navigations = <<>>

\* C7: on a successful response the response hook returns that response
\* unmodified, and neither navigates, nor logs, nor changes the stored token
C7_SuccessPassThrough ==
    [][\A r \in Slots :
          SuccessStep(r)
              => /\ req'[r].pc = "resolved"
                 /\ req'[r].value = req[r].value
                 /\ navigations' = navigations
                 /\ console' = console
                 /\ localStorage' = localStorage]_vars

C7_Witness ==
    \E r \in Slots :
        /\ req[r].pc = "resolved"
        /\ req[r].value # Undefined
        /\ req[r].value[1].data = Some("ok")
        /\ console = <<>>
        /\ navigations = <<>>

\* C8: the token is read from storage when the hook runs: across requests
\* interleaved with writes and removals of the token, a non-excluded
\* request gets the token storage holds at that moment (no header added
\* when there is none), and the hook leaves storage as it is
C8_ReadFresh ==
    [][\A r \in Slots :
          HookStep(r)
              => /\ localStorage' = localStorage
                 /\ ~UrlExcluded(req[r].config[1])
                       => Auth(req'[r].config[1]) =
                             IF TokenPresent
                             THEN Some(Bearer \o localStorage[1])
                             ELSE Auth(req[r].config[1])]_vars

C8_Witness ==
    \E r \in Slots, s \in Slots :
        /\ req[r].pc = "sent" /\ req[s].pc = "sent"
        /\ Auth(req[r].config[1]) = Some(Bearer \o tok_abc)
        /\ Auth(req[s].config[1]) = Some(Bearer \o tok_xyz)
        /\ localStorage = Undefined

\* C9: the request hook for one call changes the descriptor of that call
\* only: every other in-flight call and the client's default headers are
\* as before
C9_ScopedToCall ==
    [][\A r \in Slots :
          HookStep(r)
              => /\ defaults' = defaults
                 /\ \A s \in Slots \ {r} : req'[s] = req[s]]_vars

C9_Witness ==
    \E r \in Slots, s \in Slots :
        /\ req[r].pc = "sent" /\ req[s].pc = "sent"
        /\ UrlExcluded(req[r].config[1])
        /\ Auth(req[r].config[1]) = Undefined
        /\ ~UrlExcluded(req[s].config[1])
        /\ Auth(req[s].config[1]) = Some(Bearer \o tok_abc)
        /\ "Authorization" \notin DOMAIN defaults

\* C10: a 401 answer to a request on an excluded path, or to a request sent
\* without an Authorization header, navigates to "/login" like any other
C10_RedirectNotExempt ==
    [][\A r \in Slots :
          ( /\ ErrorStep(r)
            /\ HasStatus(req[r].value[1], 401)
            /\ \/ UrlExcluded(req[r].value[1].config)
               \/ Auth(req[r].value[1].config) = Undefined )
              => /\ navigations' # navigations
                 /\ navigations'[Len(navigations')] = "/login"]_vars

C10_Witness ==
    \E r \in Slots :
        /\ req[r].pc = "rejected"
        /\ HasStatus(req[r].value[1], 401)
        /\ UrlExcluded(req[r].value[1].config)
        /\ Auth(req[r].value[1].config) = Undefined
        /\ TokenPresent
        /\ navigations = <<"/login">>

====
